---- MODULE Spec2Model ----
(***************************************************************************)
(* Model of the PowerBody <-> Shopify synchronisation scripts.             *)
(*                                                                         *)
(*   Spec       inventory_sync.main: the import of the configuration, the  *)
(*              product fetch, and the worker pool that runs upsert or     *)
(*              only_inventory on every fetched product record, against a  *)
(*              storefront whose remote calls may fail.                    *)
(*   RepairSpec Spec, and the run of the script that follows a full-sync   *)
(*              run which left a record partially applied.                 *)
(*   OrderSpec  order_sync: the create-then-update loop of "orders-push"   *)
(*              and of sync_shopify_to_powerbody, and the supplier session *)
(*              of every other function that opens one (the exports, the   *)
(*              comments, inventory_sync.fetch_products).                  *)
(*   MapSpec    order_sync: shopify_order_to_powerbody on a storefront     *)
(*              order, and normalize_order on the payload it gives.        *)
(*   PageSpec   order_sync: the pagination loop of fetch_shopify_orders.   *)
(*   FairSpec   Spec under weak fairness of its steps.                     *)
(*                                                                         *)
(* Every remote call is one action: the local code that follows a call's   *)
(* response runs with it, up to the next remote call.  calls[i] records,   *)
(* for record i, the remote calls its worker has issued and how each       *)
(* ended; it is what the properties below read.                            *)
(***************************************************************************)
EXTENDS Integers, Sequences, FiniteSets, TLC

\* ------------------------------------------------------------------ bounds

\* Number of products in the list the supplier returns for a run.
MaxRecords == 2

\* ------------------------------------------------------------------ inputs

\* None, as os.getenv returns it for a variable that is not set.
None == "None"

Get(d, key, default) == IF key \in DOMAIN d THEN d[key] ELSE default

\* The supplier's products, as dropshipping.getProductList returns them, each
\* with the answer of dropshipping.getProductInfo as `info`: a SKU that occurs
\* more than once, a quantity of 0, an item with no sku, statuses in several
\* spellings, an item that is not sold any more and one with no info at all.
\* Prices are in hundredths, weights in grams.
Catalog ==
    << [sku |-> "X1", qty |-> 10, price |-> 999,
        info |-> [status |-> "active", weight |-> 500]],
       [sku |-> "X1", qty |-> 10, price |-> 999,
        info |-> [status |-> "Active", weight |-> 500]],
       [sku |-> "X1", qty |-> 0, price |-> 999,
        info |-> [status |-> "out of stock", weight |-> 500]],
       [sku |-> "X3", qty |-> 5, price |-> 300,
        info |-> [status |-> "discontinued", weight |-> 100]],
       [sku |-> "X2", qty |-> 0, price |-> 450,
        info |-> [status |-> "Out Of Stock"]],
       [qty |-> 10, price |-> 120,
        info |-> [status |-> "active", weight |-> 250]],
       [sku |-> "X4", qty |-> 1, price |-> 100,
        info |-> [name |-> "X4"]] >>

\* The lists the supplier can return: MaxRecords consecutive products.
SupplierLists ==
    { [k \in 1..MaxRecords |-> Catalog[first + k - 1]] :
        first \in 1..(Len(Catalog) - MaxRecords + 1) }

Modes == {"seed", "inventory"}

\* The pool sizes a run can be configured with (CONCURRENCY in the environment).
Concurrencies == {1, 2}

\* ------------------------------------------------------------------ values

\* A global id "gid://shopify/<type>/<n>".
Gid(type, n) == <<"gid://shopify", type, n>>

\* gid.rsplit("/", 1)[-1] as an int: the last path segment.
gid_num(gid) == gid[Len(gid)]

\* The decimal strings of the model and their int() / str() values.
Decimals == { <<"71", 71>>, <<"72", 72>>, <<"73", 73>> }

IsNumeric(s) == \E d \in Decimals : d[1] = s

int(s) == (CHOOSE d \in Decimals : d[1] = s)[2]

str(n) == (CHOOSE d \in Decimals : d[2] = n)[1]

\* str.lower() on the status strings of the model.
LowerCase == { <<"Active", "active">>, <<"Out Of Stock", "out of stock">> }

lower(s) ==
    IF \E c \in LowerCase : c[1] = s
    THEN (CHOOSE c \in LowerCase : c[1] = s)[2]
    ELSE s

\* The storefront's locations, in the order the locations query lists them.
ShopLocations ==
    << [id |-> Gid("Location", 71), legacyResourceId |-> "71"],
       [id |-> Gid("Location", 73), legacyResourceId |-> "73"] >>

\* What SHOPIFY_LOCATION_ID may be in the environment: a numeric id, a
\* non-numeric name, the empty string, or not set.
LocationSettings == {"72", "main", "", None}

VARIABLES
    mode,          \* sys.argv[1]
    environ,       \* os.environ, as far as the scripts read it
    CONCURRENCY,   \* inventory_sync.CONCURRENCY, the size of the pool
    supplier,      \* supplier: the product list it returns
    run,           \* "first", or "next" for the run after it
    prior,         \* the SKUs the run before created without setting their inventory
    products,      \* the records fetch_products returned
    REQ,           \* clients.REQ, the process-wide configuration
    shopVariants,  \* storefront: the variants, in creation order
    shopLevels,    \* storefront: the inventory levels {[item, loc, qty]}
    pc,            \* per record: where its future / worker is
    thread,        \* per record: the pool thread running it (0: none)
    v,             \* per record: upsert's v, v2 / only_inventory's v (edges)
    ret,           \* per record: what the worker returns after set_inventory
    loc,           \* per record: set_inventory's loc_id_int
    result,        \* per record: the future's result ("" while none)
    exc,           \* per record: the future's exception ("" while none)
    calls,         \* per record: the remote calls issued, with their outcome
    report,        \* the lines main printed (their order left out)
    mainpc,        \* "import", "fetch", "collect", "done"; "RuntimeError", "aborted"
    command,       \* order_sync: args.command, or the function called by itself
    orders,        \* order_sync: the orders of the loop
    oi,            \* order_sync: the loop's position in orders
    opc,           \* order_sync: where the loop is
    fn,            \* order_sync: the function running (create_order, ...)
    token,         \* order_sync: the session token of the function running
    pending,       \* order_sync: what the function's try block ended with
    remaining,     \* fetch_products: the items of basic still to be looked up
    sessions,      \* supplier: the number of sessions opened so far
    ocalls,        \* order_sync: the supplier calls issued, with their outcome
    olog,          \* order_sync: the status lines logged, one per order done
    so,            \* mapping: a storefront order
    pb_payload,    \* mapping: shopify_order_to_powerbody(so)
    normalized,    \* mapping: normalize_order(pb_payload)
    mappc,         \* mapping: "idle", "order", "payload" or "normalized"
    shopPages,     \* storefront: its orders (ids), page by page
    linkFirst,     \* storefront: the entry its Link header lists first
    page_info,     \* fetch_shopify_orders: page_info (0: None)
    out_orders,    \* fetch_shopify_orders: out
    requested,     \* fetch_shopify_orders: the pages its requests were answered with
    fetchpc        \* fetch_shopify_orders: "idle", "get", "returned" or "raised"

\* What a run starts from; no worker and no step of main's loop changes it.
runVars == << mode, environ, CONCURRENCY, supplier, run, prior, products >>

invVars ==
    << runVars, REQ, shopVariants, shopLevels, pc, thread, v, ret, loc,
       result, exc, calls, report, mainpc >>

ordVars ==
    << command, orders, oi, opc, fn, token, pending, remaining, sessions, ocalls, olog >>

mapVars == << so, pb_payload, normalized, mappc >>

pageVars == << shopPages, linkFirst, page_info, out_orders, requested, fetchpc >>

vars == << invVars, ordVars, mapVars, pageVars >>

Records == 1..Len(products)

\* ------------------------------------------------------------- storefront

VariantNum(k) == 2 * k - 1

ItemNum(k) == 2 * k

\* The node the productVariants query returns for variant k.
Node(k) ==
    [ id |-> Gid("ProductVariant", VariantNum(k)),
      sku |-> shopVariants[k].sku,
      inventoryItem |-> [id |-> Gid("InventoryItem", ItemNum(k))] ]

\* productVariants(first:1, query:"sku:<sku>") over the variants in `seen`.
Edges(sku, seen) ==
    LET hits == { k \in seen : shopVariants[k].sku = sku }
    IN  IF hits = {} THEN << >>
        ELSE << Node(CHOOSE k \in hits : \A j \in hits : k <= j) >>

\* The answers the search can give: over every variant, or (the search index
\* lags behind writes) over the variants that existed before this run.
SearchAnswers(sku) ==
    { Edges(sku, 1..Len(shopVariants)),
      Edges(sku, { k \in 1..Len(shopVariants) : ~shopVariants[k].fresh }) }

\* A level that is adjusted by the quantity instead of set to it.
SetLevel_Adjust(levels, item, location, qty) ==
    LET old == { l \in levels : l.item = item /\ l.loc = location }
        was == IF old = {} THEN 0 ELSE (CHOOSE l \in old : TRUE).qty
    IN  (levels \ old) \cup { [item |-> item, loc |-> location, qty |-> was + qty] }

\* inventory_levels/set and inventorySetOnHandQuantities: the level of the
\* item at the location becomes qty.
SetLevel(levels, item, location, qty) ==
    { l \in levels : ~(l.item = item /\ l.loc = location) }
        \cup { [item |-> item, loc |-> location, qty |-> qty] }

InitialShops ==
    { << >>, << [sku |-> "X1", price |-> 100, weight |-> 400, fresh |-> FALSE] >> }

\* ------------------------------------------------------------------- calls

\* A remote call: what was sent, how it ended (res) and what it answered (out).
Call(op, args, res, out) == [op |-> op, args |-> args, res |-> res, out |-> out]

Log(i, c) == calls' = [calls EXCEPT ![i] = Append(@, c)]

\* A call without a timeout that never answers: the worker waits for ever.
Raise_Hang(i, e) ==
    /\ pc' = [pc EXCEPT ![i] = "waiting"]
    /\ UNCHANGED << result, exc, thread >>

\* The worker's function raised: the future holds the exception, and the
\* thread is free for the next work item.
Raise(i, e) ==
    /\ pc' = [pc EXCEPT ![i] = "finished"]
    /\ exc' = [exc EXCEPT ![i] = e]
    /\ thread' = [thread EXCEPT ![i] = 0]
    /\ UNCHANGED result

\* The worker's function returned r: the future holds the result.
Return(i, r) ==
    /\ pc' = [pc EXCEPT ![i] = "finished"]
    /\ result' = [result EXCEPT ![i] = r]
    /\ thread' = [thread EXCEPT ![i] = 0]
    /\ UNCHANGED exc

Goto(i, where) ==
    /\ pc' = [pc EXCEPT ![i] = where]
    /\ UNCHANGED << result, exc, thread >>

Running(i) == pc[i] \notin {"queued", "finished", "reported"}

\* -------------------------------------------------------------------- Init

\* The process has loaded its configuration (REQ = {... os.getenv ...}).
InvInit ==
    /\ mode \in Modes
    /\ environ \in [SHOPIFY_LOCATION_ID : LocationSettings]
    /\ CONCURRENCY \in Concurrencies
    /\ supplier \in SupplierLists
    /\ run = "first"
    /\ prior = {}
    /\ products = << >>
    /\ REQ = [SHOPIFY_LOCATION_ID |-> environ.SHOPIFY_LOCATION_ID]
    /\ shopVariants \in InitialShops
    /\ shopLevels = {}
    /\ pc = << >>
    /\ thread = << >>
    /\ v = << >>
    /\ ret = << >>
    /\ loc = << >>
    /\ result = << >>
    /\ exc = << >>
    /\ calls = << >>
    /\ report = {}
    /\ mainpc = "import"

\* ----------------------------------------------------------------- startup

\* clients.py, on import: a required setting that is missing or empty ends
\* the process with RuntimeError.
Import_Clients ==
    /\ mainpc = "import"
    /\ mainpc' = IF REQ.SHOPIFY_LOCATION_ID \in {None, ""} THEN "RuntimeError" ELSE "fetch"
    /\ UNCHANGED << runVars, REQ, shopVariants, shopLevels, pc, thread, v, ret,
                    loc, result, exc, calls, report >>

\* fetch_products' record for a supplier item that is kept.
Canonical(item) ==
    [ sku |-> Get(item, "sku", ""),
      price |-> item.price,
      weight |-> Get(item.info, "weight", 0),
      qty |-> item.qty ]

\* fetch_products without its status filter.
fetch_products_NoFilter(basic) ==
    [n \in 1..Len(basic) |-> Canonical(basic[n])]

\* fetch_products over the list `basic`: the items whose status, in lower
\* case, is "active" or "out of stock", in the order of the list.
fetch_products(basic) ==
    LET Kept(item) == lower(Get(item.info, "status", "")) \in {"active", "out of stock"}
        out == SelectSeq(basic, Kept)
    IN  [n \in 1..Len(out) |-> Canonical(out[n])]

\* main, from fetch_products to the submission of every record to the pool.
\* A supplier call that raises ends main, and so does export_csv on an empty
\* list (records[0]).
Fetch_Products ==
    /\ mainpc = "fetch"
    /\ \/ /\ mainpc' = "aborted"
          /\ UNCHANGED << products, pc, thread, v, ret, loc, result, exc, calls >>
       \/ LET out == fetch_products(supplier)
          IN  IF out = << >>
              THEN /\ mainpc' = "aborted"
                   /\ UNCHANGED << products, pc, thread, v, ret, loc, result, exc, calls >>
              ELSE /\ products' = out
                   /\ pc' = [i \in 1..Len(out) |-> "queued"]
                   /\ thread' = [i \in 1..Len(out) |-> 0]
                   /\ v' = [i \in 1..Len(out) |-> << >>]
                   /\ ret' = [i \in 1..Len(out) |-> ""]
                   /\ loc' = [i \in 1..Len(out) |-> 0]
                   /\ result' = [i \in 1..Len(out) |-> ""]
                   /\ exc' = [i \in 1..Len(out) |-> ""]
                   /\ calls' = [i \in 1..Len(out) |-> << >>]
                   /\ mainpc' = "collect"
    /\ UNCHANGED << mode, environ, CONCURRENCY, supplier, run, prior, REQ,
                    shopVariants, shopLevels, report >>

\* ----------------------------------------------------------------- workers

Idle(t) == \A j \in Records : thread[j] # t

\* A pool that starts a thread for every work item, whatever CONCURRENCY is.
Start_NoLimit(i) ==
    /\ mainpc = "collect"
    /\ pc[i] = "queued"
    /\ \A j \in Records : j < i => pc[j] # "queued"
    /\ \E t \in 1..Len(products) :
          /\ Idle(t)
          /\ \A u \in 1..(t - 1) : ~Idle(u)
          /\ thread' = [thread EXCEPT ![i] = t]
    /\ pc' = [pc EXCEPT ![i] = "find_variant"]
    /\ UNCHANGED << runVars, REQ, shopVariants, shopLevels, v, ret, loc,
                    result, exc, calls, report, mainpc >>

\* An idle pool thread takes the oldest queued work item (the pool's threads
\* are alike: the lowest-numbered idle one is named).
Start(i) ==
    /\ mainpc = "collect"
    /\ pc[i] = "queued"
    /\ \A j \in Records : j < i => pc[j] # "queued"
    /\ \E t \in 1..CONCURRENCY :
          /\ Idle(t)
          /\ \A u \in 1..(t - 1) : ~Idle(u)
          /\ thread' = [thread EXCEPT ![i] = t]
    /\ pc' = [pc EXCEPT ![i] = "find_variant"]
    /\ UNCHANGED << runVars, REQ, shopVariants, shopLevels, v, ret, loc,
                    result, exc, calls, report, mainpc >>

\* upsert that does not look at what the lookup found and always creates.
Upsert_Find_AlwaysCreate(i) ==
    /\ mode = "seed"
    /\ pc[i] = "find_variant"
    /\ \/ /\ Log(i, Call("find_variant", [sku |-> products[i].sku], "error", << >>))
          /\ Raise(i, "find_variant")
          /\ UNCHANGED v
       \/ \E edges \in SearchAnswers(products[i].sku) :
            /\ Log(i, Call("find_variant", [sku |-> products[i].sku], "ok", edges))
            /\ v' = [v EXCEPT ![i] = edges]
            /\ Goto(i, "create_product")
    /\ UNCHANGED << runVars, REQ, shopVariants, shopLevels, ret, loc,
                    report, mainpc >>

\* upsert: v = find_variant(p["sku"]); if v: ...
Upsert_Find(i) ==
    /\ mode = "seed"
    /\ pc[i] = "find_variant"
    /\ \/ /\ Log(i, Call("find_variant", [sku |-> products[i].sku], "error", << >>))
          /\ Raise(i, "find_variant")
          /\ UNCHANGED v
       \/ \E edges \in SearchAnswers(products[i].sku) :
            /\ Log(i, Call("find_variant", [sku |-> products[i].sku], "ok", edges))
            /\ v' = [v EXCEPT ![i] = edges]
            /\ Goto(i, IF edges # << >> THEN "update_variant" ELSE "create_product")
    /\ UNCHANGED << runVars, REQ, shopVariants, shopLevels, ret, loc,
                    report, mainpc >>

\* update_variant without raise_for_status: a failed update goes unnoticed.
Upsert_Update_IgnoreError(i) ==
    /\ pc[i] = "update_variant"
    /\ LET vid  == gid_num(v[i][1].id)
           body == [id |-> vid, price |-> products[i].price,
                    weight |-> products[i].weight, sku |-> products[i].sku]
       IN  \/ /\ Log(i, Call("update_variant", body, "error", << >>))
              /\ UNCHANGED shopVariants
           \/ /\ Log(i, Call("update_variant", body, "ok", << >>))
              /\ shopVariants' =
                    [k \in 1..Len(shopVariants) |->
                        IF VariantNum(k) = vid
                        THEN [shopVariants[k] EXCEPT !.price = body.price,
                                                     !.weight = body.weight,
                                                     !.sku = body.sku]
                        ELSE shopVariants[k]]
    /\ ret' = [ret EXCEPT ![i] = "updated"]
    /\ Goto(i, "set_inventory")
    /\ UNCHANGED << runVars, REQ, shopLevels, v, loc, report, mainpc >>

\* upsert: update_variant(v["id"], p), then on to set_inventory.
Upsert_Update(i) ==
    /\ pc[i] = "update_variant"
    /\ LET vid  == gid_num(v[i][1].id)
           body == [id |-> vid, price |-> products[i].price,
                    weight |-> products[i].weight, sku |-> products[i].sku]
       IN  \/ /\ Log(i, Call("update_variant", body, "error", << >>))
              /\ Raise(i, "update_variant")
              /\ UNCHANGED << shopVariants, ret >>
           \/ /\ Log(i, Call("update_variant", body, "ok", << >>))
              /\ shopVariants' =
                    [k \in 1..Len(shopVariants) |->
                        IF VariantNum(k) = vid
                        THEN [shopVariants[k] EXCEPT !.price = body.price,
                                                     !.weight = body.weight,
                                                     !.sku = body.sku]
                        ELSE shopVariants[k]]
              /\ ret' = [ret EXCEPT ![i] = "updated"]
              /\ Goto(i, "set_inventory")
    /\ UNCHANGED << runVars, REQ, shopLevels, v, loc, report, mainpc >>

\* upsert: create_product(p).
Upsert_Create(i) ==
    /\ pc[i] = "create_product"
    /\ LET body == [sku |-> products[i].sku, price |-> products[i].price,
                    inventory_management |-> "SHOPIFY", inventory_policy |-> "continue",
                    weight |-> products[i].weight]
       IN  \/ /\ Log(i, Call("create_product", body, "error", << >>))
              /\ Raise(i, "create_product")
              /\ UNCHANGED shopVariants
           \/ /\ Log(i, Call("create_product", body, "ok", << >>))
              /\ shopVariants' =
                    Append(shopVariants,
                           [sku |-> body.sku, price |-> body.price,
                            weight |-> body.weight, fresh |-> TRUE])
              /\ Goto(i, "requery")
    /\ UNCHANGED << runVars, REQ, shopLevels, v, ret, loc, report, mainpc >>

\* upsert without its inventory step after the create.
Upsert_Requery_NoInventory(i) ==
    /\ pc[i] = "requery"
    /\ \/ /\ Log(i, Call("find_variant", [sku |-> products[i].sku], "error", << >>))
          /\ Raise(i, "find_variant")
          /\ UNCHANGED v
       \/ \E edges \in SearchAnswers(products[i].sku) :
            /\ Log(i, Call("find_variant", [sku |-> products[i].sku], "ok", edges))
            /\ v' = [v EXCEPT ![i] = edges]
            /\ Return(i, "created")
    /\ UNCHANGED << runVars, REQ, shopVariants, shopLevels, ret, loc, report, mainpc >>

\* upsert: v2 = find_variant(p["sku"]); if v2: set_inventory(...); return "created".
Upsert_Requery(i) ==
    /\ pc[i] = "requery"
    /\ \/ /\ Log(i, Call("find_variant", [sku |-> products[i].sku], "error", << >>))
          /\ Raise(i, "find_variant")
          /\ UNCHANGED << v, ret >>
       \/ \E edges \in SearchAnswers(products[i].sku) :
            /\ Log(i, Call("find_variant", [sku |-> products[i].sku], "ok", edges))
            /\ v' = [v EXCEPT ![i] = edges]
            /\ IF edges # << >>
               THEN /\ ret' = [ret EXCEPT ![i] = "created"]
                    /\ Goto(i, "set_inventory")
               ELSE /\ Return(i, "created")
                    /\ UNCHANGED ret
    /\ UNCHANGED << runVars, REQ, shopVariants, shopLevels, loc, report, mainpc >>

\* only_inventory that creates the product it does not find.
OnlyInventory_Find_Create(i) ==
    /\ mode = "inventory"
    /\ pc[i] = "find_variant"
    /\ \/ /\ Log(i, Call("find_variant", [sku |-> products[i].sku], "error", << >>))
          /\ Raise(i, "find_variant")
          /\ UNCHANGED << v, ret >>
       \/ \E edges \in SearchAnswers(products[i].sku) :
            /\ Log(i, Call("find_variant", [sku |-> products[i].sku], "ok", edges))
            /\ v' = [v EXCEPT ![i] = edges]
            /\ IF edges # << >>
               THEN /\ ret' = [ret EXCEPT ![i] = "inventory"]
                    /\ Goto(i, "set_inventory")
               ELSE /\ Goto(i, "create_product")
                    /\ UNCHANGED ret
    /\ UNCHANGED << runVars, REQ, shopVariants, shopLevels, loc, report, mainpc >>

\* only_inventory: v = find_variant(p["sku"]); if not v: return "missing".
OnlyInventory_Find(i) ==
    /\ mode = "inventory"
    /\ pc[i] = "find_variant"
    /\ \/ /\ Log(i, Call("find_variant", [sku |-> products[i].sku], "error", << >>))
          /\ Raise(i, "find_variant")
          /\ UNCHANGED << v, ret >>
       \/ \E edges \in SearchAnswers(products[i].sku) :
            /\ Log(i, Call("find_variant", [sku |-> products[i].sku], "ok", edges))
            /\ v' = [v EXCEPT ![i] = edges]
            /\ IF edges # << >>
               THEN /\ ret' = [ret EXCEPT ![i] = "inventory"]
                    /\ Goto(i, "set_inventory")
               ELSE /\ Return(i, "missing")
                    /\ UNCHANGED ret
    /\ UNCHANGED << runVars, REQ, shopVariants, shopLevels, loc, report, mainpc >>

\* ------------------------------------------------------------ set_inventory

\* set_inventory that returns at once for a quantity of 0 ("if not qty").
SetInventory_Begin_SkipZero(i) ==
    /\ pc[i] = "set_inventory"
    /\ IF products[i].qty = 0
       THEN /\ Return(i, ret[i])
            /\ UNCHANGED loc
       ELSE IF IsNumeric(REQ.SHOPIFY_LOCATION_ID)
       THEN /\ loc' = [loc EXCEPT ![i] = int(REQ.SHOPIFY_LOCATION_ID)]
            /\ Goto(i, "primary")
       ELSE /\ Goto(i, "locations")
            /\ UNCHANGED loc
    /\ UNCHANGED << runVars, REQ, shopVariants, shopLevels, v, ret, calls,
                    report, mainpc >>

\* set_inventory, up to its first remote call: int(REQ["SHOPIFY_LOCATION_ID"])
\* gives the location, or raises and the locations query is sent.
SetInventory_Begin(i) ==
    /\ pc[i] = "set_inventory"
    /\ IF IsNumeric(REQ.SHOPIFY_LOCATION_ID)
       THEN /\ loc' = [loc EXCEPT ![i] = int(REQ.SHOPIFY_LOCATION_ID)]
            /\ Goto(i, "primary")
       ELSE /\ Goto(i, "locations")
            /\ UNCHANGED loc
    /\ UNCHANGED << runVars, REQ, shopVariants, shopLevels, v, ret, calls,
                    report, mainpc >>

\* set_inventory that takes any of the storefront's locations, not the first.
SetInventory_Locations_AnyLocation(i) ==
    /\ pc[i] = "locations"
    /\ \/ /\ Log(i, Call("locations", << >>, "error", << >>))
          /\ Raise(i, "locations")
          /\ UNCHANGED << loc, REQ >>
       \/ \E k \in 1..Len(ShopLocations) :
            LET node       == ShopLocations[k]
                loc_id_int == int(node.legacyResourceId)
            IN  /\ Log(i, Call("locations", << >>, "ok", << node >>))
                /\ loc' = [loc EXCEPT ![i] = loc_id_int]
                /\ REQ' = [REQ EXCEPT !.SHOPIFY_LOCATION_ID = str(loc_id_int)]
                /\ Goto(i, "primary")
    /\ UNCHANGED << runVars, shopVariants, shopLevels, v, ret, report, mainpc >>

\* set_inventory that does not keep the location it detected.
SetInventory_Locations_NoCache(i) ==
    /\ pc[i] = "locations"
    /\ \/ /\ Log(i, Call("locations", << >>, "error", << >>))
          /\ Raise(i, "locations")
          /\ UNCHANGED loc
       \/ LET node       == ShopLocations[1]
              loc_id_int == int(node.legacyResourceId)
          IN  /\ Log(i, Call("locations", << >>, "ok", << node >>))
              /\ loc' = [loc EXCEPT ![i] = loc_id_int]
              /\ Goto(i, "primary")
    /\ UNCHANGED << runVars, REQ, shopVariants, shopLevels, v, ret, report, mainpc >>

\* The locations(first:1) query answers: the first location is cached in REQ.
SetInventory_Locations(i) ==
    /\ pc[i] = "locations"
    /\ \/ /\ Log(i, Call("locations", << >>, "error", << >>))
          /\ Raise(i, "locations")
          /\ UNCHANGED << loc, REQ >>
       \/ LET node       == ShopLocations[1]
              loc_id_int == int(node.legacyResourceId)
          IN  /\ Log(i, Call("locations", << >>, "ok", << node >>))
              /\ loc' = [loc EXCEPT ![i] = loc_id_int]
              /\ REQ' = [REQ EXCEPT !.SHOPIFY_LOCATION_ID = str(loc_id_int)]
              /\ Goto(i, "primary")
    /\ UNCHANGED << runVars, shopVariants, shopLevels, v, ret, report, mainpc >>

\* set_inventory that falls back to the mutation after any failure.
SetInventory_Primary_FallbackOnError(i) ==
    /\ pc[i] = "primary"
    /\ LET iid  == gid_num(v[i][1].inventoryItem.id)
           body == [location_id |-> loc[i], inventory_item_id |-> iid,
                    available |-> products[i].qty]
       IN  \/ /\ Log(i, Call("inventory_levels/set", body, "ok", << >>))
              /\ shopLevels' = SetLevel(shopLevels, iid, loc[i], products[i].qty)
              /\ Return(i, ret[i])
           \/ \E res \in {"404", "error"} :
                /\ Log(i, Call("inventory_levels/set", body, res, << >>))
                /\ Goto(i, "fallback")
                /\ UNCHANGED shopLevels
    /\ UNCHANGED << runVars, REQ, shopVariants, v, ret, loc, report, mainpc >>

\* POST inventory_levels/set.json: done, 404 (on to the fallback), or another
\* failure, which propagates.
SetInventory_Primary(i) ==
    /\ pc[i] = "primary"
    /\ LET iid  == gid_num(v[i][1].inventoryItem.id)
           body == [location_id |-> loc[i], inventory_item_id |-> iid,
                    available |-> products[i].qty]
       IN  \/ /\ Log(i, Call("inventory_levels/set", body, "ok", << >>))
              /\ shopLevels' = SetLevel(shopLevels, iid, loc[i], products[i].qty)
              /\ Return(i, ret[i])
           \/ /\ Log(i, Call("inventory_levels/set", body, "404", << >>))
              /\ Goto(i, "fallback")
              /\ UNCHANGED shopLevels
           \/ /\ Log(i, Call("inventory_levels/set", body, "error", << >>))
              /\ Raise(i, "inventory_levels/set")
              /\ UNCHANGED shopLevels
    /\ UNCHANGED << runVars, REQ, shopVariants, v, ret, loc, report, mainpc >>

\* The fallback without its check of userErrors.
SetInventory_Fallback_IgnoreUserErrors(i) ==
    /\ pc[i] = "fallback"
    /\ LET item_gid  == v[i][1].inventoryItem.id
           input_obj == [reason |-> "correction",
                         setQuantities |->
                            << [inventoryItemId |-> item_gid,
                                locationId |-> Gid("Location", loc[i]),
                                quantity |-> products[i].qty] >>]
       IN  \/ /\ Log(i, Call("inventorySetOnHandQuantities", input_obj, "ok", << >>))
              /\ shopLevels' =
                    SetLevel(shopLevels, gid_num(item_gid), loc[i], products[i].qty)
              /\ Return(i, ret[i])
           \/ /\ Log(i, Call("inventorySetOnHandQuantities", input_obj, "userErrors", << >>))
              /\ Return(i, ret[i])
              /\ UNCHANGED shopLevels
           \/ /\ Log(i, Call("inventorySetOnHandQuantities", input_obj, "error", << >>))
              /\ Raise(i, "inventorySetOnHandQuantities")
              /\ UNCHANGED shopLevels
    /\ UNCHANGED << runVars, REQ, shopVariants, v, ret, loc, report, mainpc >>

\* The inventorySetOnHandQuantities mutation: done, user errors (RuntimeError),
\* or a failure of the request, which propagates.
SetInventory_Fallback(i) ==
    /\ pc[i] = "fallback"
    /\ LET item_gid  == v[i][1].inventoryItem.id
           input_obj == [reason |-> "correction",
                         setQuantities |->
                            << [inventoryItemId |-> item_gid,
                                locationId |-> Gid("Location", loc[i]),
                                quantity |-> products[i].qty] >>]
       IN  \/ /\ Log(i, Call("inventorySetOnHandQuantities", input_obj, "ok", << >>))
              /\ shopLevels' =
                    SetLevel(shopLevels, gid_num(item_gid), loc[i], products[i].qty)
              /\ Return(i, ret[i])
           \/ /\ Log(i, Call("inventorySetOnHandQuantities", input_obj, "userErrors", << >>))
              /\ Raise(i, "userErrors")
              /\ UNCHANGED shopLevels
           \/ /\ Log(i, Call("inventorySetOnHandQuantities", input_obj, "error", << >>))
              /\ Raise(i, "inventorySetOnHandQuantities")
              /\ UNCHANGED shopLevels
    /\ UNCHANGED << runVars, REQ, shopVariants, v, ret, loc, report, mainpc >>

\* -------------------------------------------------------------------- main

\* A report keyed by SKU: the line of a SKU already reported is replaced.
Report_KeyedBySku(i) ==
    /\ mainpc = "collect"
    /\ pc[i] = "finished"
    /\ LET line == [fut |-> i, sku |-> products[i].sku, ok |-> exc[i] = "",
                    text |-> IF exc[i] = "" THEN result[i] ELSE exc[i]]
       IN  report' = { l \in report : l.sku # line.sku } \cup {line}
    /\ pc' = [pc EXCEPT ![i] = "reported"]
    /\ UNCHANGED << runVars, REQ, shopVariants, shopLevels, thread, v, ret, loc,
                    result, exc, calls, mainpc >>

\* The loop without its try/except: the first exception ends main.
Report_NoCatch(i) ==
    /\ mainpc = "collect"
    /\ pc[i] = "finished"
    /\ IF exc[i] = ""
       THEN /\ report' = report \cup { [fut |-> i, sku |-> products[i].sku,
                                          ok |-> TRUE, text |-> result[i]] }
            /\ UNCHANGED mainpc
       ELSE /\ mainpc' = "done"
            /\ UNCHANGED report
    /\ pc' = [pc EXCEPT ![i] = "reported"]
    /\ UNCHANGED << runVars, REQ, shopVariants, shopLevels, thread, v, ret, loc,
                    result, exc, calls >>

\* A loop that submits a failed record again instead of reporting it.
Report_Resubmit(i) ==
    /\ mainpc = "collect"
    /\ pc[i] = "finished"
    /\ IF exc[i] = "" \/ Len(calls[i]) > 1
       THEN /\ report' =
                  report \cup
                    { [fut |-> i, sku |-> products[i].sku, ok |-> exc[i] = "",
                       text |-> IF exc[i] = "" THEN result[i] ELSE exc[i]] }
            /\ pc' = [pc EXCEPT ![i] = "reported"]
            /\ UNCHANGED exc
       ELSE /\ pc' = [pc EXCEPT ![i] = "queued"]
            /\ exc' = [exc EXCEPT ![i] = ""]
            /\ UNCHANGED report
    /\ UNCHANGED << runVars, REQ, shopVariants, shopLevels, thread, v, ret, loc,
                    result, calls, mainpc >>

\* main's as_completed loop: a finished future is reported, with its result or
\* with the exception it raised.  fut is the future the line was printed for.
Report(i) ==
    /\ mainpc = "collect"
    /\ pc[i] = "finished"
    /\ report' =
          report \cup
            { IF exc[i] = ""
              THEN [fut |-> i, sku |-> products[i].sku, ok |-> TRUE, text |-> result[i]]
              ELSE [fut |-> i, sku |-> products[i].sku, ok |-> FALSE, text |-> exc[i]] }
    /\ pc' = [pc EXCEPT ![i] = "reported"]
    /\ UNCHANGED << runVars, REQ, shopVariants, shopLevels, thread, v, ret, loc,
                    result, exc, calls, mainpc >>

\* Every future was yielded: the pool shuts down and main prints "complete".
Complete ==
    /\ mainpc = "collect"
    /\ \A i \in Records : pc[i] = "reported"
    /\ mainpc' = "done"
    /\ UNCHANGED << runVars, REQ, shopVariants, shopLevels, pc, thread, v, ret,
                    loc, result, exc, calls, report >>

\* The order script is not running.
OrdIdle ==
    /\ command = ""
    /\ orders = << >>
    /\ oi = 0
    /\ opc = "idle"
    /\ fn = ""
    /\ token = 0
    /\ pending = << >>
    /\ remaining = << >>
    /\ sessions = 0
    /\ ocalls = << >>
    /\ olog = << >>

\* No order is being mapped.
MapIdle ==
    /\ so = << >>
    /\ pb_payload = << >>
    /\ normalized = << >>
    /\ mappc = "idle"

\* No storefront order fetch is running.
PageIdle ==
    /\ shopPages = << >>
    /\ linkFirst = ""
    /\ page_info = 0
    /\ out_orders = << >>
    /\ requested = << >>
    /\ fetchpc = "idle"

Init == InvInit /\ OrdIdle /\ MapIdle /\ PageIdle

Next ==
    \/ Import_Clients /\ UNCHANGED << ordVars, mapVars, pageVars >>
    \/ Fetch_Products /\ UNCHANGED << ordVars, mapVars, pageVars >>
    \/ \E i \in Records : Start(i) /\ UNCHANGED << ordVars, mapVars, pageVars >>
    \/ \E i \in Records : Upsert_Find(i) /\ UNCHANGED << ordVars, mapVars, pageVars >>
    \/ \E i \in Records : Upsert_Update(i) /\ UNCHANGED << ordVars, mapVars, pageVars >>
    \/ \E i \in Records : Upsert_Create(i) /\ UNCHANGED << ordVars, mapVars, pageVars >>
    \/ \E i \in Records : Upsert_Requery(i) /\ UNCHANGED << ordVars, mapVars, pageVars >>
    \/ \E i \in Records : OnlyInventory_Find(i) /\ UNCHANGED << ordVars, mapVars, pageVars >>
    \/ \E i \in Records : SetInventory_Begin(i) /\ UNCHANGED << ordVars, mapVars, pageVars >>
    \/ \E i \in Records : SetInventory_Locations(i) /\ UNCHANGED << ordVars, mapVars, pageVars >>
    \/ \E i \in Records : SetInventory_Primary(i) /\ UNCHANGED << ordVars, mapVars, pageVars >>
    \/ \E i \in Records : SetInventory_Fallback(i) /\ UNCHANGED << ordVars, mapVars, pageVars >>
    \/ \E i \in Records : Report(i) /\ UNCHANGED << ordVars, mapVars, pageVars >>
    \/ Complete /\ UNCHANGED << ordVars, mapVars, pageVars >>

Spec == Init /\ [][Next]_vars

\* Every remote call carries a timeout (timeout=30 on each request) and the
\* pool runs every submitted work item: a step that can be taken is taken.
FairSpec == Init /\ [][Next]_vars /\ WF_vars(Next)

\* ---------------------------------------------------------------- next run

InventoryOps == {"locations", "inventory_levels/set", "inventorySetOnHandQuantities"}

\* Record i was left partially applied: its product was created and its
\* set_inventory raised.
Partial(i) ==
    /\ \E n \in 1..Len(calls[i]) :
          calls[i][n].op = "create_product" /\ calls[i][n].res = "ok"
    /\ exc[i] # ""
    /\ calls[i][Len(calls[i])].op \in InventoryOps

\* The script is started again after a full-sync run that left a record
\* partially applied: a new process, with the same environment and no memory
\* of the run before; the storefront is as that run left it, its search index
\* now up to date.
NextRun ==
    /\ mainpc = "done"
    /\ run = "first"
    /\ mode = "seed"
    /\ \E j \in Records : Partial(j)
    /\ run' = "next"
    /\ prior' = { products[i].sku : i \in { j \in Records : Partial(j) } }
    /\ mode' \in Modes
    /\ REQ' = [SHOPIFY_LOCATION_ID |-> environ.SHOPIFY_LOCATION_ID]
    /\ shopVariants' =
          [k \in 1..Len(shopVariants) |-> [shopVariants[k] EXCEPT !.fresh = FALSE]]
    /\ products' = << >>
    /\ pc' = << >>
    /\ thread' = << >>
    /\ v' = << >>
    /\ ret' = << >>
    /\ loc' = << >>
    /\ result' = << >>
    /\ exc' = << >>
    /\ calls' = << >>
    /\ report' = {}
    /\ mainpc' = "import"
    /\ UNCHANGED << environ, CONCURRENCY, supplier, shopLevels >>

RepairNext ==
    \/ Next
    \/ NextRun /\ UNCHANGED << ordVars, mapVars, pageVars >>

RepairSpec == Init /\ [][RepairNext]_vars

\* ------------------------------------------------------------- order_sync

\* Number of orders in the list the loop runs over.
MaxOrders == 2

\* float() of the price strings of the storefront, in hundredths.
Prices == { <<"9.99", 999>>, <<"4.50", 450>> }

float(x) == (CHOOSE d \in Prices : d[1] = x)[2]

\* The storefront's open orders, as fetch_shopify_orders returns them.
ShopifyOrders ==
    << [name |-> "#1001", id |-> 71,
        line_items |-> << [sku |-> "X1", quantity |-> 2, price |-> "9.99"] >>],
       [name |-> "#1002", id |-> 72,
        line_items |-> << [sku |-> "X2", quantity |-> 1, price |-> "4.50"],
                          [sku |-> "X1", quantity |-> 3, price |-> "9.99"] >>],
       [name |-> "", id |-> 72,
        line_items |-> << [sku |-> "X2", quantity |-> 1, price |-> "4.50"] >>] >>

\* The orders of the JSON file given to "orders-push".
FileOrders ==
    << [order_id |-> 501, products |-> << [sku |-> "X1", qty |-> 2, price |-> 999] >>],
       [order_id |-> 502, products |-> << [sku |-> "X2", qty |-> 1, price |-> 450] >>],
       [order_id |-> 501, products |-> << [sku |-> "X1", qty |-> 5, price |-> 999] >>] >>

OrderLists(feed) ==
    { [k \in 1..MaxOrders |-> feed[first + k - 1]] :
        first \in 1..(Len(feed) - MaxOrders + 1) }

\* The mapping without the line items that carry no SKU.
shopify_order_to_powerbody_SkipNoSku(o) ==
    LET HasSku(li) == Get(li, "sku", "") # ""
        kept == SelectSeq(o.line_items, HasSku)
    IN  [ id |-> IF o.name # "" THEN o.name ELSE str(o.id),
          status |-> "on hold",
          products |->
            [ n \in 1..Len(kept) |->
                [ sku |-> kept[n].sku,
                  qty |-> Get(kept[n], "quantity", 0),
                  price |-> float(kept[n].price) ] ] ]

\* The payload for dropshipping.createOrder built from a storefront order: a
\* line item's sku is li.get("sku") or "", its qty int(li.get("quantity", 0)),
\* its price float(li.get("price", 0)).
shopify_order_to_powerbody(o) ==
    [ id |-> IF o.name # "" THEN o.name ELSE str(o.id),
      status |-> "on hold",
      products |->
        [ n \in 1..Len(o.line_items) |->
            [ sku |-> Get(o.line_items[n], "sku", ""),
              qty |-> Get(o.line_items[n], "quantity", 0),
              price |-> float(o.line_items[n].price) ] ] ]

\* normalize_order: the canonical order of a raw order; int() and float()
\* leave the numbers of a payload as they are.
normalize_order(raw_order) ==
    [ order_id |-> Get(raw_order, "order_id", None),
      status |-> Get(raw_order, "status", None),
      products |->
        LET items == Get(raw_order, "products", << >>)
        IN  [ n \in 1..Len(items) |->
                [ sku |-> Get(items[n], "sku", None),
                  qty |-> Get(items[n], "qty", 0),
                  price |-> Get(items[n], "price", 0) ] ] ]

\* What the loop hands to create_order and update_order for order k.
Payload(k) ==
    IF k \notin 1..Len(orders) THEN << >>
    ELSE IF command = "shopify-sync" THEN shopify_order_to_powerbody(orders[k])
    ELSE orders[k]

\* What client.service.call can answer to createOrder / updateOrder: a dict
\* with a status token, a dict without one, nothing, or a string not decoded.
Tokens == {"SUCCESS", "ALREADY_EXISTS", "FAIL"}

Responses ==
    { [type |-> "dict", value |-> [api_response |-> t]] : t \in Tokens }
        \cup { [type |-> "dict", value |-> [message |-> "ok"]],
               [type |-> "NoneType", value |-> << >>],
               [type |-> "str", value |-> << >>] }

\* A response without a status token read as "the order exists".
ApiResponse_DefaultExists(resp) ==
    IF "api_response" \in DOMAIN resp.value
    THEN resp.value.api_response
    ELSE "ALREADY_EXISTS"

\* resp.get("api_response", "FAIL") on (resp or {}).
ApiResponse(resp) ==
    IF "api_response" \in DOMAIN resp.value THEN resp.value.api_response ELSE "FAIL"

\* What the supplier can answer to the other calls: a list of dicts (here
\* with their product_id only), or one of the answers above but a status.
Lists == { [type |-> "list", value |-> [n \in 1..len |-> [product_id |-> n]]] :
             len \in 0..MaxRecords }

OtherResponses ==
    Lists \cup { [type |-> "dict", value |-> [message |-> "ok"]],
                 [type |-> "NoneType", value |-> << >>],
                 [type |-> "str", value |-> << >>] }

\* The commands that call one supplier function once, and the function:
\* order_sync's exports and comments, insert_comment called by itself, and
\* the product fetch of inventory_sync.
Functions ==
    [ orders_export |-> "fetch_orders",
      refunds_export |-> "fetch_refund_orders",
      products |-> "fetch_product_list",
      comments |-> "get_comments",
      insert_comment |-> "insert_comment",
      inventory_sync |-> "fetch_products" ]

LoopCommands == {"orders-push", "shopify-sync"}

\* The resource a function calls first (fetch_products goes on with
\* dropshipping.getProductInfo for every item).
Resource(f) ==
    CASE f = "create_order" -> "dropshipping.createOrder"
      [] f = "update_order" -> "dropshipping.updateOrder"
      [] f = "fetch_orders" -> "dropshipping.getOrders"
      [] f = "fetch_refund_orders" -> "dropshipping.getRefundOrders"
      [] f = "insert_comment" -> "dropshipping.insertComment"
      [] f = "get_comments" -> "dropshipping.getComments"
      [] OTHER -> "dropshipping.getProductList"

\* Whether function f returns on the answer resp, or raises on it: .get on a
\* str (create_order, update_order), or on the keys of a dict taken for the
\* list of records (fetch_orders, fetch_refund_orders, fetch_products; a str
\* is decoded by _ensure_parsed, here to no record).
Returns(f, resp) ==
    CASE f \in {"create_order", "update_order"} -> resp.type # "str"
      [] f \in {"fetch_orders", "fetch_refund_orders", "fetch_products"} ->
            resp.type # "dict"
      [] OTHER -> TRUE

\* A supplier call of the loop: res is how it ended, resp what it answered.
OCall(op, res, resp) ==
    [order |-> oi, fn |-> fn, op |-> op, payload |-> Payload(oi), token |-> token,
     res |-> res, resp |-> resp]

NoResponse == [type |-> "", value |-> << >>]

OrdInit ==
    /\ command \in LoopCommands \cup DOMAIN Functions
    /\ orders \in (CASE command = "shopify-sync" -> OrderLists(ShopifyOrders)
                     [] command = "orders-push" -> OrderLists(FileOrders)
                     [] OTHER -> { << >> })
    /\ oi = IF command \in LoopCommands THEN 1 ELSE 0
    /\ opc = "login"
    /\ fn = IF command \in LoopCommands THEN "create_order" ELSE Functions[command]
    /\ token = 0
    /\ pending = << >>
    /\ remaining = << >>
    /\ sessions = 0
    /\ ocalls = << >>
    /\ olog = << >>

\* The inventory script is not running.
InvIdle ==
    /\ mode = ""
    /\ environ = [SHOPIFY_LOCATION_ID |-> "72"]
    /\ CONCURRENCY = 1
    /\ supplier = << >>
    /\ run = "first"
    /\ prior = {}
    /\ products = << >>
    /\ REQ = [SHOPIFY_LOCATION_ID |-> "72"]
    /\ shopVariants = << >>
    /\ shopLevels = {}
    /\ pc = << >>
    /\ thread = << >>
    /\ v = << >>
    /\ ret = << >>
    /\ loc = << >>
    /\ result = << >>
    /\ exc = << >>
    /\ calls = << >>
    /\ report = {}
    /\ mainpc = "idle"

\* The loop that also updates after a create that answered FAIL.
Continue_UpdateOnFail(status) ==
    IF fn = "create_order" /\ status \in {"ALREADY_EXISTS", "FAIL"}
    THEN /\ fn' = "update_order"
         /\ opc' = "login"
         /\ UNCHANGED << oi, olog >>
    ELSE /\ olog' = Append(olog, [order |-> oi, status |-> status])
         /\ fn' = "create_order"
         /\ oi' = oi + 1
         /\ opc' = IF oi < Len(orders) THEN "login" ELSE "done"

\* The loop goes on after the function returned `status` for order oi: on to
\* update_order after a create that answered ALREADY_EXISTS, else the status
\* is logged and the next order is taken.
Continue(status) ==
    IF fn = "create_order" /\ status = "ALREADY_EXISTS"
    THEN /\ fn' = "update_order"
         /\ opc' = "login"
         /\ UNCHANGED << oi, olog >>
    ELSE /\ olog' = Append(olog, [order |-> oi, status |-> status])
         /\ fn' = "create_order"
         /\ oi' = oi + 1
         /\ opc' = IF oi < Len(orders) THEN "login" ELSE "done"

\* pb_login at the head of create_order / update_order: a token, or it raises
\* and the exception leaves the loop.
Pb_Login ==
    /\ opc = "login"
    /\ \/ /\ ocalls' = Append(ocalls, OCall("login", "raise", NoResponse))
          /\ opc' = "crashed"
          /\ UNCHANGED << token, sessions >>
       \/ /\ sessions' = sessions + 1
          /\ token' = sessions + 1
          /\ ocalls' = Append(ocalls, [OCall("login", "ok", NoResponse) EXCEPT !.token = sessions + 1])
          /\ opc' = "call"
    /\ UNCHANGED << command, orders, oi, fn, pending, remaining, olog >>

\* pb_call(client, token, resource, ...) at the head of the try block: it
\* raises, or answers and the function builds its return value, raises on
\* the answer (both go through the finally block), or, in fetch_products,
\* goes on to look up the items of the list.
Pb_Call ==
    /\ opc = "call"
    /\ \/ /\ ocalls' = Append(ocalls, OCall(Resource(fn), "raise", NoResponse))
          /\ pending' = [kind |-> "raise", status |-> ""]
          /\ opc' = "logout"
          /\ UNCHANGED remaining
       \/ \E resp \in (IF fn \in {"create_order", "update_order"}
                        THEN Responses ELSE OtherResponses) :
            /\ ocalls' = Append(ocalls, OCall(Resource(fn), "ok", resp))
            /\ IF fn = "fetch_products" /\ resp.type = "list" /\ resp.value # << >>
               THEN /\ remaining' = resp.value
                    /\ opc' = "info"
                    /\ UNCHANGED pending
               ELSE /\ pending' =
                          IF ~Returns(fn, resp)
                          THEN [kind |-> "raise", status |-> ""]
                          ELSE [kind |-> "return",
                                status |-> IF fn \in {"create_order", "update_order"}
                                           THEN ApiResponse(resp) ELSE ""]
                    /\ opc' = "logout"
                    /\ UNCHANGED remaining
    /\ UNCHANGED << command, orders, oi, fn, token, sessions, olog >>

\* fetch_products' loop over basic: pb_call getProductInfo for the next item;
\* the call raises, or info.get raises on an answer that is a list, or the
\* loop goes on, and the function returns after the last item.
Pb_Info ==
    /\ opc = "info"
    /\ \/ /\ ocalls' = Append(ocalls, OCall("dropshipping.getProductInfo", "raise", NoResponse))
          /\ pending' = [kind |-> "raise", status |-> ""]
          /\ opc' = "logout"
          /\ UNCHANGED remaining
       \/ \E resp \in OtherResponses :
            /\ ocalls' = Append(ocalls, OCall("dropshipping.getProductInfo", "ok", resp))
            /\ IF resp.type = "list" /\ resp.value # << >>
               THEN /\ pending' = [kind |-> "raise", status |-> ""]
                    /\ opc' = "logout"
                    /\ UNCHANGED remaining
               ELSE /\ remaining' = Tail(remaining)
                    /\ IF Tail(remaining) = << >>
                       THEN /\ pending' = [kind |-> "return", status |-> ""]
                            /\ opc' = "logout"
                       ELSE UNCHANGED << pending, opc >>
    /\ UNCHANGED << command, orders, oi, fn, token, sessions, olog >>

\* try: client.service.endSession(token) without the except clause.
Pb_Logout_NoSwallow ==
    /\ opc = "logout"
    /\ token' = 0
    /\ pending' = << >>
    /\ \/ /\ ocalls' = Append(ocalls, OCall("endSession", "raise", NoResponse))
          /\ opc' = "crashed"
          /\ UNCHANGED << oi, fn, olog >>
       \/ /\ ocalls' = Append(ocalls, OCall("endSession", "ok", NoResponse))
          /\ IF pending.kind = "raise"
             THEN /\ opc' = "crashed"
                  /\ UNCHANGED << oi, fn, olog >>
             ELSE IF command \in LoopCommands
             THEN Continue(pending.status)
             ELSE /\ opc' = "done"
                  /\ UNCHANGED << oi, fn, olog >>
    /\ UNCHANGED << command, orders, remaining, sessions >>

\* pb_logout in the finally block (a failure of endSession is swallowed),
\* then the function returns, to the loop if there is one, or its exception
\* leaves it and ends the script.
Pb_Logout ==
    /\ opc = "logout"
    /\ \E r \in {"ok", "raise"} : ocalls' = Append(ocalls, OCall("endSession", r, NoResponse))
    /\ token' = 0
    /\ pending' = << >>
    /\ IF pending.kind = "raise"
       THEN /\ opc' = "crashed"
            /\ UNCHANGED << oi, fn, olog >>
       ELSE IF command \in LoopCommands
       THEN Continue(pending.status)
       ELSE /\ opc' = "done"
            /\ UNCHANGED << oi, fn, olog >>
    /\ UNCHANGED << command, orders, remaining, sessions >>

OrdNext ==
    \/ Pb_Login /\ UNCHANGED << invVars, mapVars, pageVars >>
    \/ Pb_Call /\ UNCHANGED << invVars, mapVars, pageVars >>
    \/ Pb_Info /\ UNCHANGED << invVars, mapVars, pageVars >>
    \/ Pb_Logout /\ UNCHANGED << invVars, mapVars, pageVars >>

OrderInit == InvIdle /\ OrdInit /\ MapIdle /\ PageIdle

OrderSpec == OrderInit /\ [][OrdNext]_vars

\* ------------------------------------------------------------ order mapping

\* Number of line items in a storefront order.
MaxItems == 2

\* The line items of the storefront: with a SKU, with an empty one or with
\* none (a custom item), with or without a quantity.
LineItems ==
    { s @@ q @@ [price |-> p] :
        s \in { << >>, [sku |-> ""], [sku |-> "X1"], [sku |-> "X2"] },
        q \in { << >>, [quantity |-> 1], [quantity |-> 3] },
        p \in { "9.99", "4.50" } }

StorefrontOrders ==
    { [name |-> nm, id |-> 71, line_items |-> items] :
        nm \in {"#1001", ""},
        items \in UNION { [1..n -> LineItems] : n \in 0..MaxItems } }

MapInit ==
    /\ so \in StorefrontOrders
    /\ pb_payload = << >>
    /\ normalized = << >>
    /\ mappc = "order"

\* pb_payload = shopify_order_to_powerbody(so)
Map_ToPowerbody ==
    /\ mappc = "order"
    /\ pb_payload' = shopify_order_to_powerbody(so)
    /\ mappc' = "payload"
    /\ UNCHANGED << so, normalized >>

\* normalize_order on the payload.
Map_Normalize ==
    /\ mappc = "payload"
    /\ normalized' = normalize_order(pb_payload)
    /\ mappc' = "normalized"
    /\ UNCHANGED << so, pb_payload >>

MapNext ==
    \/ Map_ToPowerbody /\ UNCHANGED << invVars, ordVars, pageVars >>
    \/ Map_Normalize /\ UNCHANGED << invVars, ordVars, pageVars >>

MapSpecInit == InvIdle /\ OrdIdle /\ MapInit /\ PageIdle

MapSpec == MapSpecInit /\ [][MapNext]_vars

\* ------------------------------------------------------- order pagination

\* Number of pages the storefront's orders fill.
MaxPages == 3

\* Page p with n orders; an order is named by its id.
PageOf(p, n) == [k \in 1..n |-> 10 * p + k]

\* The storefront's orders in pages: no order at all (one empty page), or up
\* to MaxPages pages of one or two orders.
ShopPageLists ==
    { << << >> >> } \cup
    UNION { { [p \in 1..n |-> PageOf(p, size[p])] : size \in [1..n -> 1..2] } :
              n \in 1..MaxPages }

\* All orders of the storefront, in page order.
RECURSIVE AllOrders(_)
AllOrders(pages) ==
    IF pages = << >> THEN << >>
    ELSE AllOrders(SubSeq(pages, 1, Len(pages) - 1)) \o pages[Len(pages)]

\* The Link header of the response for page p: an entry with rel="previous"
\* when a page precedes it, one with rel="next" when a page follows it, each
\* with the page_info cursor of the page it links to (a page's cursor is its
\* number), in the order the storefront lists them.
LinkHeader(p) ==
    LET previous == IF p > 1
                    THEN << [page_info |-> p - 1, rel |-> "previous"] >> ELSE << >>
        next     == IF p < Len(shopPages)
                    THEN << [page_info |-> p + 1, rel |-> "next"] >> ELSE << >>
    IN  IF linkFirst = "previous" THEN previous \o next ELSE next \o previous

\* 'rel="next"' in link
HasNext(link) == \E n \in 1..Len(link) : link[n].rel = "next"

\* link.split("page_info=")[1].split(">")[0]: the cursor of the first entry.
FirstCursor(link) == link[1].page_info

PageInit ==
    /\ shopPages \in ShopPageLists
    /\ linkFirst \in {"previous", "next"}
    /\ page_info = 0
    /\ out_orders = << >>
    /\ requested = << >>
    /\ fetchpc = "get"

\* One turn of the while loop: the request for the first page or for the page
\* the cursor names; raise_for_status raises, or the batch is added to out
\* and the Link header decides whether and where the loop goes on.  The
\* model follows the loop for 2 * MaxPages requests.
Shop_Get ==
    /\ fetchpc = "get"
    /\ Len(requested) < 2 * MaxPages
    /\ LET p == IF page_info # 0 THEN page_info ELSE 1
       IN  \/ /\ fetchpc' = "raised"
              /\ UNCHANGED << page_info, out_orders, requested >>
           \/ /\ requested' = Append(requested, p)
              /\ out_orders' = out_orders \o shopPages[p]
              /\ IF ~HasNext(LinkHeader(p))
                 THEN /\ fetchpc' = "returned"
                      /\ UNCHANGED page_info
                 ELSE /\ page_info' = FirstCursor(LinkHeader(p))
                      /\ UNCHANGED fetchpc
    /\ UNCHANGED << shopPages, linkFirst >>

PageNext ==
    \/ Shop_Get /\ UNCHANGED << invVars, ordVars, mapVars >>

PageSpecInit == InvIdle /\ OrdIdle /\ MapIdle /\ PageInit

PageSpec == PageSpecInit /\ [][PageNext]_vars

\* ------------------------------------------------------- reading the state

Finished(i) == pc[i] \in {"finished", "reported"}

Failures == {"error", "userErrors"}

\* No remote call of record i has failed (a 404 of the primary inventory call
\* is answered by the fallback and is no failure by itself).
AllOk(i) == \A n \in 1..Len(calls[i]) : calls[i][n].res \notin Failures

Positions(i, op) == { n \in 1..Len(calls[i]) : calls[i][n].op = op }

Count(i, op) == Cardinality(Positions(i, op))

Mutations ==
    {"create_product", "update_variant", "inventory_levels/set",
     "inventorySetOnHandQuantities"}

\* The calls of record i that upsert / only_inventory are described by: the
\* location query and the fallback mutation belong to the inside of
\* set_inventory.
IsStep(c) == c.op \notin {"locations", "inventorySetOnHandQuantities"}

Steps(i) ==
    LET s == SelectSeq(calls[i], IsStep)
    IN  [n \in 1..Len(s) |-> s[n].op]

IsPrefix(s, t) ==
    /\ Len(s) <= Len(t)
    /\ \A n \in 1..Len(s) : s[n] = t[n]

\* The first lookup of record i was answered, with a variant / with none.
LookupFound(i) ==
    /\ calls[i] # << >>
    /\ calls[i][1].res = "ok"
    /\ calls[i][1].out # << >>

LookupEmpty(i) ==
    /\ calls[i] # << >>
    /\ calls[i][1].res = "ok"
    /\ calls[i][1].out = << >>

\* How many input records / report lines carry a SKU.
InputCount(sku) == Cardinality({ i \in Records : products[i].sku = sku })

ReportCount(sku) == Cardinality({ l \in report : l.sku = sku })

\* ------------------------------------------------------------------ claims

\* C1 as stated: when the run completes, the report has one outcome per input
\* record and every input SKU appears in it exactly once, also when two input
\* records carry the same SKU.
C1_OncePerSku ==
    mainpc = "done" =>
        /\ Cardinality(report) = Len(products)
        /\ \A i \in Records : ReportCount(products[i].sku) = 1

\* C1 amended: when the run completes, the report has one outcome per input
\* record, and every SKU appears in it as often as it appears in the input
\* (so exactly once when the input SKUs are distinct).
C1_OncePerRecord ==
    mainpc = "done" =>
        /\ Cardinality(report) = Len(products)
        /\ \A i \in Records : Cardinality({ l \in report : l.fut = i }) = 1
        /\ \A l \in report : l.sku = products[l.fut].sku
        /\ \A i \in Records : ReportCount(products[i].sku) = InputCount(products[i].sku)

C1_Witness ==
    /\ mainpc = "done"
    /\ \E i, j \in Records : i # j /\ products[i].sku = products[j].sku
    /\ Cardinality(report) = Len(products)
    /\ \E l, m \in report : l # m /\ l.sku = m.sku

\* C2: a record whose reconciliation raises or whose remote call fails is
\* reported as failed for its own SKU only: a record's outcome is a failure
\* exactly when a remote call of that record failed, whatever happened to the
\* others, and when the run completes every record has been reported with a
\* terminal outcome.
C2_FailureIsolated ==
    /\ \A i \in Records :
          Finished(i) =>
            /\ (exc[i] # "") = ~AllOk(i)
            /\ (exc[i] = "") = (result[i] \in {"created", "updated", "inventory", "missing"})
            /\ (exc[i] # "") => calls[i][Len(calls[i])].res \in Failures
    /\ \A l \in report :
          /\ l.sku = products[l.fut].sku
          /\ l.ok = (exc[l.fut] = "")
          /\ l.text = (IF l.ok THEN result[l.fut] ELSE exc[l.fut])
    /\ mainpc = "done" =>
          \A i \in Records : \E l \in report : l.fut = i

C2_Witness ==
    /\ mainpc = "done"
    /\ \E i, j \in Records :
          /\ exc[i] # ""
          /\ result[j] \in {"created", "updated", "inventory"}
          /\ \E l, m \in report :
                /\ l.fut = i /\ ~l.ok
                /\ m.fut = j /\ m.ok /\ m.text = result[j]

\* C3: full-sync reconciliation of a product whose SKU lookup finds no variant
\* issues, in this order, one create-product call, one variant re-query and
\* one inventory-set call for the re-queried variant's inventory item and the
\* record's quantity, issues no variant-update call, and ends with outcome
\* "created" (the calls succeeding and the re-query returning the variant).
C3_CreatePath ==
    \A i \in Records :
        (mode = "seed" /\ LookupEmpty(i)) =>
            /\ Count(i, "update_variant") = 0
            /\ IsPrefix(Steps(i), << "find_variant", "create_product", "find_variant",
                                    "inventory_levels/set" >>)
            /\ result[i] \in {"", "created"}
            /\ (Finished(i) /\ AllOk(i) /\ calls[i][3].out # << >>) =>
                  /\ Steps(i) = << "find_variant", "create_product", "find_variant",
                                  "inventory_levels/set" >>
                  /\ result[i] = "created"
                  /\ \A n \in Positions(i, "inventory_levels/set") :
                        /\ calls[i][n].args.inventory_item_id =
                              gid_num(calls[i][3].out[1].inventoryItem.id)
                        /\ calls[i][n].args.available = products[i].qty

C3_Witness ==
    \E i \in Records :
        /\ mode = "seed" /\ LookupEmpty(i)
        /\ pc[i] = "reported" /\ result[i] = "created"
        /\ Count(i, "create_product") = 1
        /\ Count(i, "find_variant") = 2
        /\ Count(i, "inventory_levels/set") = 1
        /\ products[i].sku = "X1" /\ products[i].qty = 10

\* C4: full-sync reconciliation of a product whose SKU lookup finds a variant
\* updates price and sku on that variant first and only then sets the
\* inventory level, never issues a create-product call, and ends with outcome
\* "updated"; if the variant update fails, no inventory-set call is made for
\* the record and its outcome is failed.
C4_UpdatePath ==
    \A i \in Records :
        (mode = "seed" /\ LookupFound(i)) =>
            /\ Count(i, "create_product") = 0
            /\ IsPrefix(Steps(i), << "find_variant", "update_variant",
                                    "inventory_levels/set" >>)
            /\ result[i] \in {"", "updated"}
            /\ \A n \in Positions(i, "update_variant") :
                  /\ calls[i][n].args =
                        [id |-> gid_num(calls[i][1].out[1].id),
                         price |-> products[i].price, weight |-> products[i].weight,
                         sku |-> products[i].sku]
                  /\ calls[i][n].res = "error" =>
                        /\ Finished(i) /\ exc[i] # ""
                        /\ Count(i, "inventory_levels/set") = 0
                        /\ Count(i, "inventorySetOnHandQuantities") = 0
            /\ \A n \in Positions(i, "inventory_levels/set") :
                  /\ calls[i][2].res = "ok"
                  /\ calls[i][n].args.inventory_item_id =
                        gid_num(calls[i][1].out[1].inventoryItem.id)
                  /\ calls[i][n].args.available = products[i].qty
            /\ (Finished(i) /\ AllOk(i)) =>
                  /\ Steps(i) = << "find_variant", "update_variant",
                                  "inventory_levels/set" >>
                  /\ result[i] = "updated"

C4_Witness ==
    \E i, j \in Records :
        /\ mode = "seed" /\ LookupFound(i) /\ LookupFound(j)
        /\ pc[i] = "reported" /\ result[i] = "updated"
        /\ Count(i, "inventory_levels/set") = 1
        /\ pc[j] = "reported" /\ exc[j] = "update_variant"

\* C5: inventory-only reconciliation of a product whose SKU lookup finds a
\* variant issues exactly one inventory-set operation, also for quantity 0,
\* issues no create-product or variant-update call, and ends with outcome
\* "inventory" (the spec's inventory-only).
C5_InventoryOnly ==
    \A i \in Records :
        (mode = "inventory" /\ LookupFound(i)) =>
            /\ Count(i, "create_product") = 0
            /\ Count(i, "update_variant") = 0
            /\ IsPrefix(Steps(i), << "find_variant", "inventory_levels/set" >>)
            /\ Count(i, "inventorySetOnHandQuantities") <= 1
            /\ result[i] \in {"", "inventory"}
            /\ \A n \in Positions(i, "inventory_levels/set") :
                  /\ calls[i][n].args.inventory_item_id =
                        gid_num(calls[i][1].out[1].inventoryItem.id)
                  /\ calls[i][n].args.available = products[i].qty
            /\ (Finished(i) /\ AllOk(i)) =>
                  /\ Count(i, "inventory_levels/set") = 1
                  /\ result[i] = "inventory"

C5_Witness ==
    \E i \in Records :
        /\ mode = "inventory" /\ LookupFound(i)
        /\ products[i].qty = 0
        /\ pc[i] = "reported" /\ result[i] = "inventory"
        /\ Count(i, "inventory_levels/set") = 1
        /\ \E l \in shopLevels : l.qty = 0

\* C6: inventory-only reconciliation of a product whose SKU lookup finds no
\* variant ends with outcome "missing" and issues no create-product,
\* variant-update, inventory-set or fallback call for that record: the lookup
\* is its only remote call, and a batch of such records leaves the storefront
\* as it was.
C6_MissingNoMutation ==
    /\ \A i \in Records :
          (mode = "inventory" /\ LookupEmpty(i)) =>
              /\ Finished(i)
              /\ result[i] = "missing" /\ exc[i] = ""
              /\ Len(calls[i]) = 1
              /\ \A n \in 1..Len(calls[i]) : calls[i][n].op \notin Mutations
    /\ (\A i \in Records : result[i] = "missing") =>
          /\ shopLevels = {}
          /\ \A k \in 1..Len(shopVariants) : ~shopVariants[k].fresh
          /\ shopVariants \in InitialShops

C6_Witness ==
    /\ mainpc = "done"
    /\ mode = "inventory"
    /\ \A i \in Records : LookupEmpty(i) /\ result[i] = "missing"
    /\ shopVariants # << >>

\* C7: when the primary REST inventory-set call returns 404, set_inventory
\* issues exactly one fallback mutation, with reason "correction" and the
\* inventory item, location and quantity of the primary call; user errors of
\* the mutation make the record's outcome failed, and with none the inventory
\* step succeeds.
C7_Fallback ==
    \A i \in Records :
        /\ Count(i, "inventorySetOnHandQuantities") <= 1
        /\ \A n \in Positions(i, "inventory_levels/set") :
              calls[i][n].res = "404" =>
                /\ pc[i] # "fallback" => n < Len(calls[i])
                /\ n < Len(calls[i]) =>
                      LET primary == calls[i][n].args
                          input   == calls[i][n + 1].args
                      IN  /\ calls[i][n + 1].op = "inventorySetOnHandQuantities"
                          /\ n + 1 = Len(calls[i])
                          /\ input.reason = "correction"
                          /\ Len(input.setQuantities) = 1
                          /\ gid_num(input.setQuantities[1].inventoryItemId)
                                = primary.inventory_item_id
                          /\ input.setQuantities[1].inventoryItemId[2] = "InventoryItem"
                          /\ gid_num(input.setQuantities[1].locationId)
                                = primary.location_id
                          /\ input.setQuantities[1].locationId[2] = "Location"
                          /\ input.setQuantities[1].quantity = primary.available
        /\ \A n \in Positions(i, "inventorySetOnHandQuantities") :
              /\ n > 1
              /\ calls[i][n - 1].op = "inventory_levels/set"
              /\ calls[i][n - 1].res = "404"
              /\ Finished(i)
              /\ calls[i][n].res = "userErrors" => exc[i] = "userErrors" /\ result[i] = ""
              /\ calls[i][n].res = "ok" =>
                    /\ exc[i] = ""
                    /\ result[i] = ret[i]
                    /\ result[i] \in {"created", "updated", "inventory"}

C7_Witness ==
    \E i, j \in Records :
        /\ pc[i] = "reported" /\ exc[i] = "userErrors"
        /\ Count(i, "inventorySetOnHandQuantities") = 1
        /\ pc[j] = "reported" /\ exc[j] = ""
        /\ Count(j, "inventorySetOnHandQuantities") = 1
        /\ calls[j][Len(calls[j])].res = "ok"

\* C10: a product record with no SKU is never reconciled: in neither mode is a
\* create-product, variant-update or inventory-set call issued for it.
C10_NoSkuNoCalls ==
    \A i \in Records :
        products[i].sku = "" =>
            \A n \in 1..Len(calls[i]) : calls[i][n].op \notin Mutations

\* The location of every inventory-set call of record i, primary or fallback.
Targets(i) ==
    { calls[i][n].args.location_id : n \in Positions(i, "inventory_levels/set") }
        \cup { gid_num(calls[i][n].args.setQuantities[1].locationId) :
                  n \in Positions(i, "inventorySetOnHandQuantities") }

\* C11: the storefront location id is optional: when it is not set or empty,
\* just as when it is non-numeric, the run still starts (the import of the
\* configuration does not end it) and every inventory-set call goes to the
\* storefront's first location, which set_inventory detects.
C11_LocationOptional ==
    ~IsNumeric(environ.SHOPIFY_LOCATION_ID) =>
        /\ mainpc # "RuntimeError"
        /\ \A i \in Records :
              /\ Targets(i) \subseteq {int(ShopLocations[1].legacyResourceId)}
              /\ pc[i] = "primary" => \E j \in Records : Count(j, "locations") > 0

\* The calls of record i that set an inventory level and succeeded.
LevelsSet(i) ==
    { n \in 1..Len(calls[i]) :
        /\ calls[i][n].op \in {"inventory_levels/set", "inventorySetOnHandQuantities"}
        /\ calls[i][n].res = "ok" }

\* The inventory item and the quantity a level-setting call carries.
ItemOf(c) ==
    IF c.op = "inventory_levels/set" THEN c.args.inventory_item_id
    ELSE gid_num(c.args.setQuantities[1].inventoryItemId)

QuantityOf(c) ==
    IF c.op = "inventory_levels/set" THEN c.args.available
    ELSE c.args.setQuantities[1].quantity

\* C12: a record left partially applied is repaired by the next run: when a
\* full-sync run created the product of a SKU and its inventory-set failed,
\* the next run's lookup of that SKU finds the variant, the record takes the
\* update path (full-sync) or the inventory-only path, no create-product call
\* is issued for the SKU, and (its calls succeeding) the inventory of the
\* found variant is set to the record's quantity.
C12_RepairedByNextRun ==
    run = "next" =>
        /\ \A s \in prior : \E k \in 1..Len(shopVariants) : shopVariants[k].sku = s
        /\ \A i \in Records :
              products[i].sku \in prior =>
                /\ Count(i, "create_product") = 0
                /\ ~LookupEmpty(i)
                /\ IsPrefix(Steps(i),
                            IF mode = "seed"
                            THEN << "find_variant", "update_variant", "inventory_levels/set" >>
                            ELSE << "find_variant", "inventory_levels/set" >>)
                /\ (Finished(i) /\ AllOk(i)) =>
                      /\ result[i] = (IF mode = "seed" THEN "updated" ELSE "inventory")
                      /\ Cardinality(LevelsSet(i)) = 1
                      /\ \A n \in LevelsSet(i) :
                            /\ QuantityOf(calls[i][n]) = products[i].qty
                            /\ ItemOf(calls[i][n]) =
                                  gid_num(calls[i][1].out[1].inventoryItem.id)
                            /\ \E k \in 1..Len(shopVariants) :
                                  /\ ItemNum(k) = ItemOf(calls[i][n])
                                  /\ shopVariants[k].sku = products[i].sku

C12_Witness ==
    /\ run = "next"
    /\ mainpc = "done"
    /\ \E i \in Records :
          /\ products[i].sku \in prior
          /\ products[i].qty = 10
          /\ result[i] \in {"updated", "inventory"}
          /\ \E l \in shopLevels :
                /\ l.item = gid_num(calls[i][1].out[1].inventoryItem.id)
                /\ l.qty = 10

\* C13: at every moment of a batch run at most CONCURRENCY record
\* reconciliations are in progress, each on a pool thread of its own, so that
\* a thread has finished its record before it takes another; records are
\* taken in the order they were submitted.
C13_BoundedPool ==
    /\ Cardinality({ i \in Records : Running(i) }) <= CONCURRENCY
    /\ \A i \in Records :
          IF Running(i) THEN thread[i] \in 1..CONCURRENCY ELSE thread[i] = 0
    /\ \A i, j \in Records :
          (i # j /\ Running(i) /\ Running(j)) => thread[i] # thread[j]
    /\ \A i, j \in Records :
          (i < j /\ pc[i] = "queued") => pc[j] = "queued"

C13_Witness ==
    /\ CONCURRENCY = 1
    /\ Len(products) > CONCURRENCY
    /\ Finished(1)
    /\ Running(2)
    /\ thread[2] = 1
    /\ Len(calls[1]) > 1

LocationOf(c) ==
    IF c.op = "inventory_levels/set" THEN c.args.location_id
    ELSE gid_num(c.args.setQuantities[1].locationId)

\* The levels other than the one of an item at a location.
OtherLevels(levels, item, location) ==
    { l \in levels : ~(l.item = item /\ l.loc = location) }

\* Record i is inside set_inventory.
InSetInventory(i) == pc[i] \in {"set_inventory", "locations", "primary", "fallback"}

\* C14: set_inventory is idempotent: a set_inventory that succeeds leaves the
\* item's level at the location equal to the quantity and every other level
\* as it was; when the level already equals the quantity (set_inventory was
\* called before with the same item and quantity) the storefront's levels are
\* after the call what they were before it; and no step of set_inventory
\* changes anything else in the storefront.
C14_SetInventoryIdempotent ==
    [][ \A i \in Records :
          (InSetInventory(i) /\ calls'[i] # calls[i]) =>
            LET c == calls'[i][Len(calls'[i])]
            IN  /\ shopVariants' = shopVariants
                /\ IF c.op \in {"inventory_levels/set", "inventorySetOnHandQuantities"}
                      /\ c.res = "ok"
                   THEN /\ { l \in shopLevels' :
                               l.item = ItemOf(c) /\ l.loc = LocationOf(c) }
                             = { [item |-> ItemOf(c), loc |-> LocationOf(c),
                                  qty |-> QuantityOf(c)] }
                        /\ OtherLevels(shopLevels', ItemOf(c), LocationOf(c))
                             = OtherLevels(shopLevels, ItemOf(c), LocationOf(c))
                        /\ [item |-> ItemOf(c), loc |-> LocationOf(c),
                            qty |-> QuantityOf(c)] \in shopLevels
                              => shopLevels' = shopLevels
                   ELSE shopLevels' = shopLevels ]_vars

\* Two set_inventory calls in succession, with the same item and quantity.
C14_Witness ==
    /\ CONCURRENCY = 1
    /\ mainpc = "done"
    /\ \E i, j \in Records :
          /\ i # j
          /\ \E n \in LevelsSet(i), m \in LevelsSet(j) :
                /\ ItemOf(calls[i][n]) = ItemOf(calls[j][m])
                /\ QuantityOf(calls[i][n]) = 10
                /\ QuantityOf(calls[j][m]) = 10
                /\ shopLevels = { [item |-> ItemOf(calls[i][n]),
                                   loc |-> LocationOf(calls[i][n]), qty |-> 10] }

\* The status of supplier product k as the supplier gives it ("" if none).
StatusOf(k) ==
    IF "status" \in DOMAIN supplier[k].info THEN supplier[k].info.status ELSE ""

\* The supplier products that are sold: status "active" or "out of stock",
\* in whatever case the supplier spells it.
Sold == { k \in 1..Len(supplier) : lower(StatusOf(k)) \in {"active", "out of stock"} }

SkuOf(k) == IF "sku" \in DOMAIN supplier[k] THEN supplier[k].sku ELSE ""

\* C16: the product fetch returns exactly the supplier products whose status
\* is "active" or "out of stock": the fetched records are those products, one
\* record each and in the supplier's order, a product with another status or
\* with none is not among them, and no remote call of the run carries the
\* SKU of a product that was left out.
C16_FetchFilter ==
    mainpc \in {"collect", "done"} =>
        /\ Len(products) = Cardinality(Sold)
        /\ \E f \in [Records -> Sold] :
              /\ \A i, j \in Records : i < j => f[i] < f[j]
              /\ \A i \in Records :
                    /\ products[i].sku = SkuOf(f[i])
                    /\ products[i].qty = supplier[f[i]].qty
                    /\ products[i].price = supplier[f[i]].price
        /\ \A i \in Records : \A n \in 1..Len(calls[i]) :
              calls[i][n].op \in {"find_variant", "create_product", "update_variant"} =>
                  calls[i][n].args.sku \in { SkuOf(k) : k \in Sold }

C16_Witness ==
    /\ mainpc = "done"
    /\ \E k \in 1..Len(supplier) : StatusOf(k) = "discontinued"
    /\ \E k \in 1..Len(supplier) : StatusOf(k) = "out of stock"
    /\ Len(products) = 1
    /\ products[1].sku = "X1"
    /\ pc[1] = "reported"

\* The location queries of record i that were answered.
Resolutions(i) == { n \in Positions(i, "locations") : calls[i][n].res = "ok" }

\* C17: under every interleaving of the pool's workers the cached location id
\* is only ever overwritten with one and the same resolved value (every
\* resolution of the run stored the value the cache holds), all inventory-set
\* calls of the run, primary and fallback, target one location id, and once
\* the cached value is numeric it does not change for the rest of the run.
C17_OneLocation ==
    /\ [](/\ Cardinality(UNION { Targets(i) : i \in Records }) <= 1
          /\ \A i \in Records : \A n \in Resolutions(i) :
                /\ REQ.SHOPIFY_LOCATION_ID = calls[i][n].out[1].legacyResourceId
                /\ Targets(i) \subseteq {int(REQ.SHOPIFY_LOCATION_ID)})
    /\ [][ /\ IsNumeric(REQ.SHOPIFY_LOCATION_ID) => REQ' = REQ
           /\ REQ' # REQ => IsNumeric(REQ'.SHOPIFY_LOCATION_ID) ]_vars

\* The race on the first resolution: two workers both resolved the location.
C17_Witness ==
    /\ mainpc = "done"
    /\ ~IsNumeric(environ.SHOPIFY_LOCATION_ID)
    /\ REQ.SHOPIFY_LOCATION_ID = "71"
    /\ \E i, j \in Records :
          /\ i # j
          /\ Resolutions(i) # {} /\ Resolutions(j) # {}
          /\ LevelsSet(i) # {} /\ LevelsSet(j) # {}
          /\ \E n \in Positions(j, "inventorySetOnHandQuantities") : TRUE

\* C18: location resolution is cached for the run: with a numeric configured
\* location id no set_inventory call queries the storefront's locations;
\* otherwise, once a set_inventory call has resolved and stored the first
\* location, no set_inventory call that starts afterwards sends a location
\* query.
C18_ResolvedOnce ==
    /\ [](IsNumeric(environ.SHOPIFY_LOCATION_ID) =>
            \A i \in Records : Count(i, "locations") = 0 /\ pc[i] # "locations")
    /\ [][ \A i \in Records :
            (pc[i] = "set_inventory" /\ pc'[i] = "locations") =>
                \A j \in Records : Resolutions(j) = {} ]_vars

C18_Witness ==
    /\ ~IsNumeric(environ.SHOPIFY_LOCATION_ID)
    /\ \E i, j \in Records :
          /\ Resolutions(i) # {}
          /\ Finished(j)
          /\ Count(j, "locations") = 0
          /\ LevelsSet(j) # {}
          /\ Targets(j) = {int(ShopLocations[1].legacyResourceId)}

\* C19: when the primary inventory-set call fails with a failure other than
\* not-found, set_inventory issues no fallback mutation and no second primary
\* call: the failed call is the record's last remote call, its failure is
\* what the future raises, and the record is reported as failed with it.
C19_NoRetry ==
    \A i \in Records :
        /\ Count(i, "inventory_levels/set") <= 1
        /\ \A n \in Positions(i, "inventory_levels/set") :
              calls[i][n].res = "error" =>
                /\ n = Len(calls[i])
                /\ Count(i, "inventorySetOnHandQuantities") = 0
                /\ Finished(i)
                /\ exc[i] = "inventory_levels/set"
                /\ result[i] = ""
                /\ pc[i] = "reported" =>
                      \E l \in report :
                          l.fut = i /\ ~l.ok /\ l.text = "inventory_levels/set"

C19_Witness ==
    /\ mainpc = "done"
    /\ \E i \in Records :
          /\ calls[i][Len(calls[i])].op = "inventory_levels/set"
          /\ calls[i][Len(calls[i])].res = "error"
          /\ \E l \in report : l.fut = i /\ ~l.ok

\* The re-query of record i (its third call, after lookup and create) failed:
\* the query raised, or it returned no variant.
RequeryFailed(i) ==
    /\ Len(calls[i]) >= 3
    /\ calls[i][2].op = "create_product" /\ calls[i][2].res = "ok"
    /\ calls[i][3].op = "find_variant"
    /\ calls[i][3].res = "error" \/ calls[i][3].out = << >>

\* C20: in full-sync with no variant found and a successful create-product
\* call, when the re-query fails (it returns no variant, or the query itself
\* errors) no inventory-set call is made and the record's outcome is still
\* "created", not failed.
C20_RequeryNonFatal ==
    \A i \in Records :
        (mode = "seed" /\ LookupEmpty(i) /\ RequeryFailed(i)) =>
            /\ Len(calls[i]) = 3
            /\ Finished(i)
            /\ exc[i] = ""
            /\ result[i] = "created"

\* C21: the orchestrator never retries: a record's operation is started once,
\* from the queue and before any of its calls, a record that has left the
\* queue never returns to it, a finished record issues no further call, and a
\* failed record is reported; so when the run completes every record was
\* started exactly once (one first lookup) and reported.
C21_NoRetry ==
    /\ [](/\ \A i \in Records :
                /\ pc[i] = "queued" => calls[i] = << >>
                /\ Count(i, "find_variant") <= (IF mode = "seed" THEN 2 ELSE 1)
                /\ Count(i, "find_variant") = 2 => Count(i, "create_product") = 1
                /\ \A op \in Mutations : Count(i, op) <= 1
          /\ mainpc = "done" =>
                \A i \in Records :
                    /\ pc[i] = "reported"
                    /\ calls[i] # << >>
                    /\ calls[i][1].op = "find_variant")
    /\ [][ \A i \in Records :
            /\ pc[i] # "queued" => i \in DOMAIN pc' /\ pc'[i] # "queued"
            /\ (pc[i] = "queued" /\ pc'[i] # "queued") => pc'[i] = "find_variant"
            /\ Finished(i) => /\ pc'[i] \in {"finished", "reported"}
                              /\ calls'[i] = calls[i]
                              /\ exc'[i] = exc[i]
                              /\ result'[i] = result[i] ]_vars

C21_Witness ==
    /\ mainpc = "done"
    /\ \E i, j \in Records :
          /\ exc[i] = "find_variant"
          /\ Len(calls[i]) = 1
          /\ \E l \in report : l.fut = i /\ ~l.ok
          /\ exc[j] = ""
          /\ Count(j, "find_variant") = 1

\* C23: every run ends: a run that has its records by completing the batch
\* (one without records ended at import or at the fetch); at termination every
\* record is reported with one terminal outcome (created, updated,
\* inventory-only, missing or failed), and a record is failed only by a call
\* of its own that failed: the failure is the last call the record made.
C23_Terminates ==
    /\ <>(mainpc \in {"done", "RuntimeError", "aborted"})
    /\ [](mainpc \in {"RuntimeError", "aborted"} => products = << >>)
    /\ [](mainpc = "done" =>
            \A i \in Records :
                /\ pc[i] = "reported"
                /\ Cardinality({ l \in report : l.fut = i }) = 1
                /\ (exc[i] = "") =
                      (result[i] \in {"created", "updated", "inventory", "missing"})
                /\ exc[i] # "" =>
                      /\ result[i] = ""
                      /\ calls[i] # << >>
                      /\ calls[i][Len(calls[i])].res \in Failures
                      /\ \A n \in 1..(Len(calls[i]) - 1) :
                            calls[i][n].res # "error")

C23_Witness ==
    /\ mainpc = "done"
    /\ \E i, j \in Records :
          /\ exc[i] # ""
          /\ calls[i][Len(calls[i])].res = "error"
          /\ exc[j] = ""
          /\ result[j] \in {"created", "updated"}
          /\ AllOk(j)

\* ------------------------------------------------------------ order claims

OPositions(k, f, op) ==
    { n \in 1..Len(ocalls) :
        ocalls[n].order = k /\ ocalls[n].fn = f /\ ocalls[n].op = op }

\* The loop is past order k.
OrderDone(k) == oi > k \/ opc \in {"done", "crashed"}

\* The status create_order returned for order k, "" if it returned none.
CreateStatus(k) ==
    LET at == { n \in OPositions(k, "create_order", "dropshipping.createOrder") :
                  /\ ocalls[n].res = "ok"
                  /\ ocalls[n].resp.type # "str"
                  /\ \E m \in OPositions(k, "create_order", "endSession") : m > n }
    IN  IF at = {} THEN "" ELSE ApiResponse(ocalls[CHOOSE n \in at : TRUE].resp)

\* C8: for an order, update_order is called if and only if create_order
\* returned the status ALREADY_EXISTS: then it is called exactly once, after
\* the create, and sends at most one updateOrder call, with the payload of the
\* create (exactly one once its login has succeeded); after any other create
\* status it is not called; and no other supplier call precedes the create.
C8_UpdateIffExists ==
    \A k \in 1..Len(orders) :
        /\ Cardinality(OPositions(k, "create_order", "login")) <= 1
        /\ Cardinality(OPositions(k, "update_order", "login")) <= 1
        /\ Cardinality(OPositions(k, "update_order", "dropshipping.updateOrder")) <= 1
        /\ Cardinality(OPositions(k, "create_order", "dropshipping.createOrder")) <= 1
        /\ \A n \in OPositions(k, "update_order", "login") :
              ocalls[n].res = "ok" =>
                \/ n = Len(ocalls) /\ opc = "call"
                \/ /\ n < Len(ocalls)
                   /\ ocalls[n + 1].op = "dropshipping.updateOrder"
                   /\ ocalls[n + 1].order = k
        /\ OrderDone(k) =>
              (Cardinality(OPositions(k, "update_order", "login")) = 1)
                 = (CreateStatus(k) = "ALREADY_EXISTS")
        /\ \A n \in 1..Len(ocalls) :
              ocalls[n].order = k =>
                /\ ocalls[n].op \in
                     {"login", "endSession", Resource(ocalls[n].fn)}
                /\ ocalls[n].payload = Payload(k)
                /\ ocalls[n].fn = "update_order" =>
                     \E m \in OPositions(k, "create_order", "dropshipping.createOrder") :
                        /\ m < n
                        /\ ocalls[m].payload = ocalls[n].payload
                        /\ ocalls[m].res = "ok"
                        /\ ocalls[m].resp.type = "dict"
                        /\ ApiResponse(ocalls[m].resp) = "ALREADY_EXISTS"
                /\ (\A m \in 1..(n - 1) : ocalls[m].order # k) =>
                     ocalls[n].fn = "create_order" /\ ocalls[n].op = "login"

C8_Witness ==
    /\ opc = "done"
    /\ \E k, j \in 1..Len(orders) :
          /\ CreateStatus(k) = "ALREADY_EXISTS"
          /\ Cardinality(OPositions(k, "update_order", "dropshipping.updateOrder")) = 1
          /\ CreateStatus(j) = "FAIL"
          /\ OPositions(j, "update_order", "login") = {}

\* C9: a failure of one order's create or update call, returned or raised,
\* never ends the loop: every later order of the list is still attempted.
C9_LaterOrdersAttempted ==
    (/\ opc \in {"done", "crashed"}
     /\ \A n \in 1..Len(ocalls) : ocalls[n].op = "login" => ocalls[n].res = "ok")
        => \A k \in 1..Len(orders) : OPositions(k, "create_order", "login") # {}

\* An answer to createOrder / updateOrder that carries no status token: no
\* response at all, or a dict without the api_response field.
NoStatusToken(c) ==
    /\ c.op \in {"dropshipping.createOrder", "dropshipping.updateOrder"}
    /\ c.res = "ok"
    /\ c.resp.type \in {"dict", "NoneType"}
    /\ "api_response" \notin DOMAIN c.resp.value

\* C22: a create or update call answered without a status token results in
\* FAIL: while the function finishes its result is FAIL, once it has returned
\* the loop has logged FAIL for the order, and after such a create no
\* update_order is called for the order.
C22_NoTokenIsFail ==
    \A n \in 1..Len(ocalls) :
        NoStatusToken(ocalls[n]) =>
            /\ n = Len(ocalls) =>
                  opc = "logout" /\ pending = [kind |-> "return", status |-> "FAIL"]
            /\ n < Len(ocalls) =>
                  /\ ocalls[n + 1].op = "endSession"
                  /\ ocalls[n + 1].token = ocalls[n].token
                  /\ Len(SelectSeq(olog, LAMBDA l : l.order = ocalls[n].order)) = 1
                  /\ \E x \in 1..Len(olog) :
                        olog[x] = [order |-> ocalls[n].order, status |-> "FAIL"]
            /\ ocalls[n].fn = "create_order" =>
                  \A m \in 1..Len(ocalls) :
                      ocalls[m].order = ocalls[n].order => ocalls[m].fn = "create_order"

C22_Witness ==
    /\ opc = "done"
    /\ \E n, m \in 1..Len(ocalls) :
          /\ NoStatusToken(ocalls[n])
          /\ ocalls[n].fn = "create_order"
          /\ ocalls[n].resp.type = "NoneType"
          /\ OPositions(ocalls[n].order, "update_order", "login") = {}
          /\ NoStatusToken(ocalls[m])
          /\ ocalls[m].fn = "update_order"
          /\ ocalls[m].resp.type = "dict"
          /\ olog[ocalls[n].order].status = "FAIL"
          /\ olog[ocalls[m].order].status = "FAIL"

\* C24: the pagination visits each page once, in page order, and returns the
\* orders of every page once: the requests are answered with pages 1, 2, ...
\* and never with more pages than the storefront has; when the function
\* returns, every page was requested and out holds all orders in page order.
C24_EachPageOnce ==
    /\ Len(requested) <= Len(shopPages)
    /\ \A n \in 1..Len(requested) : requested[n] = n
    /\ fetchpc = "returned" =>
          /\ Len(requested) = Len(shopPages)
          /\ out_orders = AllOrders(shopPages)

\* A remote procedure call of a session: neither the login nor the end-session.
IsRpc(c) == c.op \notin {"login", "endSession"}

\* The end-session calls issued for token t.
Ends(t) ==
    { m \in 1..Len(ocalls) : ocalls[m].op = "endSession" /\ ocalls[m].token = t }

\* C25: in every supplier operation a successful login gives a fresh token and
\* is followed by exactly one end-session call for that token once the
\* function is over (none while it runs), issued after the operation's last
\* remote procedure call, also when that call raised; nothing but the
\* function's calls lies between the two; a failed login is followed by no
\* call; and whether end-session succeeds or fails, the operation ends as its
\* try block ended: with the exception it raised, or with its result (the
\* status the loop logs, or the end of the command).
C25_SessionLifecycle ==
    /\ [](\A n \in 1..Len(ocalls) :
            LET c == ocalls[n]
                t == c.token
            IN  /\ (c.op = "login" /\ c.res = "raise") =>
                      n = Len(ocalls) /\ opc = "crashed"
                /\ (c.op = "login" /\ c.res = "ok") =>
                      /\ t # 0
                      /\ \A m \in 1..(n - 1) : ocalls[m].token # t
                      /\ Cardinality(Ends(t)) <= 1
                      /\ (token = t) = (Ends(t) = {})
                      /\ token = t =>
                            /\ opc \in {"call", "info", "logout"}
                            /\ \A m \in (n + 1)..Len(ocalls) :
                                  ocalls[m].token = t /\ IsRpc(ocalls[m])
                      /\ \A e \in Ends(t) :
                            /\ e > n
                            /\ \A m \in (n + 1)..(e - 1) :
                                  /\ ocalls[m].token = t
                                  /\ IsRpc(ocalls[m])
                                  /\ ocalls[m].fn = c.fn
                            /\ \A m \in (e + 1)..Len(ocalls) : ocalls[m].token # t
                /\ c.op # "login" =>
                      \E m \in 1..(n - 1) :
                          /\ ocalls[m].op = "login"
                          /\ ocalls[m].res = "ok"
                          /\ ocalls[m].token = t
                /\ (IsRpc(c) /\ c.res = "raise") =>
                      \/ n = Len(ocalls) /\ opc = "logout" /\ token = t
                      \/ /\ n < Len(ocalls)
                         /\ ocalls[n + 1].op = "endSession"
                         /\ ocalls[n + 1].token = t)
    /\ [][ opc = "logout" =>
            /\ (opc' = "crashed") = (pending.kind = "raise")
            /\ (pending.kind = "return" /\ command \notin LoopCommands) =>
                  opc' = "done"
            /\ (pending.kind = "return" /\ command \in LoopCommands) =>
                  IF fn = "create_order" /\ pending.status = "ALREADY_EXISTS"
                  THEN fn' = "update_order" /\ oi' = oi /\ olog' = olog
                  ELSE olog' = Append(olog, [order |-> oi, status |-> pending.status])
          ]_vars

C25_Witness ==
    /\ command = "orders-push"
    /\ opc = "crashed"
    /\ Len(ocalls) = 6
    /\ ocalls[1].op = "login" /\ ocalls[1].res = "ok"
    /\ ocalls[2].op = "dropshipping.createOrder" /\ ocalls[2].res = "ok"
    /\ ocalls[3].op = "endSession" /\ ocalls[3].res = "raise"
    /\ ocalls[3].token = ocalls[1].token
    /\ olog = << [order |-> 1, status |-> "SUCCESS"] >>
    /\ ocalls[4].op = "login" /\ ocalls[4].res = "ok"
    /\ ocalls[5].op = "dropshipping.createOrder" /\ ocalls[5].res = "raise"
    /\ ocalls[6].op = "endSession"
    /\ ocalls[6].token = ocalls[4].token
    /\ ocalls[4].token # ocalls[1].token

\* C15: mapping a storefront order to a supplier payload and that payload
\* back to the canonical order gives as many line items, in the same order,
\* each with the SKU (the empty SKU for a line item that has none), the
\* quantity and the price of the storefront line item at its position.
C15_RoundTrip ==
    mappc = "normalized" =>
        /\ Len(normalized.products) = Len(so.line_items)
        /\ \A n \in 1..Len(so.line_items) :
              LET li   == so.line_items[n]
                  item == normalized.products[n]
              IN  /\ item.sku = (IF "sku" \in DOMAIN li THEN li.sku ELSE "")
                  /\ item.qty = (IF "quantity" \in DOMAIN li THEN li.quantity ELSE 0)
                  /\ \E d \in Prices : d[1] = li.price /\ d[2] = item.price

C15_Witness ==
    /\ mappc = "normalized"
    /\ Len(so.line_items) = 2
    /\ so.line_items[1] = [sku |-> "X2", quantity |-> 3, price |-> "4.50"]
    /\ "sku" \notin DOMAIN so.line_items[2]
    /\ normalized.products[1] = [sku |-> "X2", qty |-> 3, price |-> 450]
    /\ normalized.products[2].sku = ""

====
